---- MODULE Spec2Model ----
(***************************************************************************)
(* A model of backtrader_plotting/bokeh/bokeh.py: the Bokeh plotting       *)
(* session (class Bokeh), its graph builder, plot-master resolver, range   *)
(* resolution, single/tabbed layout and the analyzer tab.                  *)
(***************************************************************************)
EXTENDS Integers, Sequences, FiniteSets, TLC

VARIABLES
    plotinfo,       \* Plottable -> its plotinfo (plot, plotskip, subplot, plotmaster, plotabove)
    owner,          \* indicator/observer -> its .data attribute
    scheme,         \* self.p.scheme (volume, voloverlay, xaxis_pos, plot_mode)
    data_graph,     \* self._data_graph: NoGraph, or the ordered dict as a sequence of groups
    volume_graphs,  \* self._volume_graphs: NoVolume, or a sequence of data feeds
    figures,        \* self._figures
    cds,            \* self._cds
    analyzers,      \* self._analyzers
    call,           \* the last call made on the session: its arguments, its outcome and,
                    \* for show(), the document handed to _output_plot_file
    resolver,       \* a running _resolve_plotmaster: pc, argument, obj, iterations
    st_dtime,       \* strategy.lines.datetime.plot(): the sorted time series
    range_call      \* the last _get_start_end call: arguments and result

vars == <<plotinfo, owner, scheme, data_graph, volume_graphs, figures, cds,
          analyzers, call, resolver, st_dtime, range_call>>

----------------------------------------------------------------------------
(* Bounds of the model *)

NumData == 2

(* Python's None, for an object reference *)
NoneObj == 0

(* the data feeds, one observer, one indicator *)
Datas == 1 .. NumData
Observers == {NumData + 1}
Indicators == {NumData + 2}
Plottables == Datas \cup Observers \cup Indicators
(* an indicator with no plotinfo attribute (a LineSingle derived object) *)
LineSingle == NumData + 3

(* type(master), as the layout code tests it with issubclass *)
TypeOf(p) ==
    IF p \in Datas THEN "DataBase"
    ELSE IF p \in Observers THEN "Observer"
    ELSE "Indicator"

Perms(S) ==
    {s \in [1 .. Cardinality(S) -> S] : \A i, j \in 1 .. Cardinality(S) : i # j => s[i] # s[j]}

SeqToSet(s) == {s[i] : i \in 1 .. Len(s)}

----------------------------------------------------------------------------
(* _resolve_plotmaster: follow plotinfo.plotmaster until an object without one *)

loop_break_first(info, obj) == TRUE

(* the loop's exit test: pm = obj.plotinfo.plotmaster; if pm is None: break *)
loop_break(info, obj) == info[obj].plotmaster = NoneObj

RECURSIVE resolve_loop(_, _, _)
resolve_loop(info, obj, fuel) ==
    IF loop_break(info, obj) \/ fuel = 0 THEN obj
    ELSE resolve_loop(info, info[obj].plotmaster, fuel - 1)

_resolve_plotmaster(info, obj) ==
    IF obj = NoneObj THEN NoneObj
    ELSE resolve_loop(info, obj, Cardinality(DOMAIN info))

(* the plot-master chain has no cycle: following it from p never returns to p *)
RECURSIVE OnChain(_, _, _, _)
OnChain(pm, from, target, fuel) ==
    IF fuel = 0 \/ pm[from] = NoneObj THEN FALSE
    ELSE pm[from] = target \/ OnChain(pm, pm[from], target, fuel - 1)

Acyclic(pm) == \A p \in DOMAIN pm : ~OnChain(pm, p, p, Cardinality(DOMAIN pm))

----------------------------------------------------------------------------
(* The ordered dict self._data_graph, as a sequence of [master, slaves]     *)

(* self._data_graph and self._volume_graphs are None until the first _build_graph *)
NoGraph == <<[master |-> NoneObj, slaves |-> <<>>]>>
NoVolume == <<NoneObj>>

HasKey(g, k) == \E i \in 1 .. Len(g) : g[i].master = k

KeyIndex(g, k) == CHOOSE i \in 1 .. Len(g) : g[i].master = k

(* g[k] = []: a new key goes last, an existing key keeps its place and loses its list *)
SetEmpty(g, k) ==
    IF HasKey(g, k)
    THEN [g EXCEPT ![KeyIndex(g, k)].slaves = <<>>]
    ELSE Append(g, [master |-> k, slaves |-> <<>>])

(* if k not in g: g[k] = []; then g[k].append(s) *)
AppendSlave(g, k, s) ==
    LET g1 == IF HasKey(g, k) THEN g ELSE Append(g, [master |-> k, slaves |-> <<>>])
    IN  [g1 EXCEPT ![KeyIndex(g1, k)].slaves = Append(@, s)]

----------------------------------------------------------------------------
(* _build_graph *)

volume_panel_volume_only(sch) == sch.volume

(* if self.p.scheme.volume and self.p.scheme.voloverlay is False *)
volume_panel(sch) == sch.volume /\ sch.voloverlay = FALSE

(* the body of "for d in datas" *)
graph_data(info, sch, acc, d) ==
    IF ~info[d].plot THEN acc
    ELSE
        LET pmaster == _resolve_plotmaster(info, info[d].plotmaster)
            g == IF pmaster = NoneObj
                 THEN SetEmpty(acc.graph, d)
                 ELSE AppendSlave(acc.graph, pmaster, d)
        IN  [graph |-> g,
             volume |-> IF volume_panel(sch) THEN Append(acc.volume, d) ELSE acc.volume]

(* the body of "for o in obs"; falsy holds the objects whose bool() is False,
   which "o.plotinfo.plotmaster or o.data" passes over like None *)
graph_obs(info, own, falsy, acc, o) ==
    IF ~info[o].plot \/ info[o].plotskip THEN acc
    ELSE IF info[o].subplot THEN [acc EXCEPT !.graph = SetEmpty(acc.graph, o)]
    ELSE
        LET pm == info[o].plotmaster
            first == IF pm = NoneObj \/ pm \in falsy THEN own[o] ELSE pm
            pmaster == _resolve_plotmaster(info, first)
        IN  [acc EXCEPT !.graph = AppendSlave(acc.graph, pmaster, o)]

(* the body of "for i in inds" *)
graph_ind(info, own, acc, i) ==
    IF i \notin DOMAIN info THEN acc
    ELSE IF ~info[i].plot \/ info[i].plotskip THEN acc
    ELSE IF info[i].subplot THEN [acc EXCEPT !.graph = SetEmpty(acc.graph, i)]
    ELSE
        LET pm == info[i].plotmaster
            first == IF pm # NoneObj THEN pm ELSE own[i]
            pmaster == _resolve_plotmaster(info, first)
        IN  [acc EXCEPT !.graph = AppendSlave(acc.graph, pmaster, i)]

RECURSIVE loop_datas(_, _, _, _)
loop_datas(info, sch, acc, ds) ==
    IF ds = <<>> THEN acc
    ELSE loop_datas(info, sch, graph_data(info, sch, acc, Head(ds)), Tail(ds))

RECURSIVE loop_obs(_, _, _, _, _)
loop_obs(info, own, falsy, acc, os) ==
    IF os = <<>> THEN acc
    ELSE loop_obs(info, own, falsy, graph_obs(info, own, falsy, acc, Head(os)), Tail(os))

RECURSIVE loop_inds(_, _, _, _)
loop_inds(info, own, acc, is) ==
    IF is = <<>> THEN acc
    ELSE loop_inds(info, own, graph_ind(info, own, acc, Head(is)), Tail(is))

(* the whole of _build_graph: datas, then observers, then indicators *)
_build_graph(info, own, sch, falsy, datas, inds, obs) ==
    LET a0 == [graph |-> <<>>, volume |-> <<>>]
        a1 == loop_datas(info, sch, a0, datas)
        a2 == loop_obs(info, own, falsy, a1, obs)
    IN  loop_inds(info, own, a2, inds)

----------------------------------------------------------------------------
(* _get_start_end *)

MaxLen == 3
MaxDay == 2
TicksPerDay == 2
MaxTick == MaxDay * TicksPerDay + 1

(* a start/end argument: None, an integer index or a calendar date *)
NoneArg == [tag |-> "none", v |-> 0]
IntArg(n) == [tag |-> "int", v |-> n]
DateArg(d) == [tag |-> "date", v |-> d]

(* bt.date2num: a calendar date is the number of its midnight *)
date2num(d) == d * TicksPerDay

(* bisect.bisect_left(a, x): lo, hi are 0-based, a[mid] is a[mid + 1] here *)
RECURSIVE bisect_left_loop(_, _, _, _)
bisect_left_loop(a, x, lo, hi) ==
    IF lo < hi
    THEN LET mid == (lo + hi) \div 2
         IN  IF a[mid + 1] < x
             THEN bisect_left_loop(a, x, mid + 1, hi)
             ELSE bisect_left_loop(a, x, lo, mid)
    ELSE lo

bisect_left(a, x) == bisect_left_loop(a, x, 0, Len(a))

(* bisect.bisect_right(a, x) *)
RECURSIVE bisect_right_loop(_, _, _, _)
bisect_right_loop(a, x, lo, hi) ==
    IF lo < hi
    THEN LET mid == (lo + hi) \div 2
         IN  IF x < a[mid + 1]
             THEN bisect_right_loop(a, x, lo, mid)
             ELSE bisect_right_loop(a, x, mid + 1, hi)
    ELSE lo

bisect_right(a, x) == bisect_right_loop(a, x, 0, Len(a))

resolve_start(dtime, start) ==
    LET s1 == IF start.tag = "none" THEN IntArg(0) ELSE start
    IN  IF s1.tag = "date" THEN bisect_left(dtime, date2num(s1.v)) ELSE s1.v

resolve_end_left(dtime, end) ==
    LET e1 == IF end.tag = "none" THEN IntArg(Len(dtime)) ELSE end
        e2 == IF e1.tag = "date" THEN bisect_left(dtime, date2num(e1.v)) ELSE e1.v
    IN  IF e2 < 0 THEN Len(dtime) + 1 + e2 ELSE e2

resolve_end(dtime, end) ==
    LET e1 == IF end.tag = "none" THEN IntArg(Len(dtime)) ELSE end
        e2 == IF e1.tag = "date" THEN bisect_right(dtime, date2num(e1.v)) ELSE e1.v
    IN  IF e2 < 0 THEN Len(dtime) + 1 + e2 ELSE e2

_get_start_end(dtime, start, end) ==
    [start |-> resolve_start(dtime, start), end |-> resolve_end(dtime, end)]

----------------------------------------------------------------------------
(* _get_analyzer_tab *)

MaxHeight == 4
MaxAnalyzers == 3

(* the height of a block that has none (x.height is None) *)
NoneHeight == -1

(* an analyzer, as get_analyzers_tables renders it: a header block and the
   element blocks, each with a height or none *)
Blocks(analyzer) == <<[height |-> analyzer.header]>> \o
                    [k \in 1 .. Len(analyzer.elements) |-> [height |-> analyzer.elements[k]]]

RECURSIVE _get_column_row_count(_)
_get_column_row_count(col) ==
    IF col = <<>> THEN 0
    ELSE (IF Head(col).height # NoneHeight THEN Head(col).height ELSE 0)
         + _get_column_row_count(Tail(col))

col_idx_strict(col0cnt, col1cnt) == IF col0cnt < col1cnt THEN 1 ELSE 2

(* col_idx = 0 if col0cnt <= col1cnt else 1; the columns are 1 and 2 here *)
col_idx(col0cnt, col1cnt) == IF col0cnt <= col1cnt THEN 1 ELSE 2

(* the body of the inner loop: one analyzer's blocks go to the chosen column *)
place_analyzer(col_childs, analyzer) ==
    LET idx == col_idx(_get_column_row_count(col_childs[1]),
                       _get_column_row_count(col_childs[2]))
    IN  [col_childs EXCEPT ![idx] = @ \o Blocks(analyzer)]

RECURSIVE place_items(_, _)
place_items(col_childs, items) ==
    IF items = <<>> THEN col_childs
    ELSE place_items(place_analyzer(col_childs, Head(items)), Tail(items))

RECURSIVE place_all(_, _)
place_all(col_childs, as) ==
    IF as = <<>> THEN col_childs
    ELSE place_all(place_items(col_childs, Head(as)), Tail(as))

(* the Panel returned, or no panel: the row's children are column1 and, when
   it is not empty, column2 *)
_get_analyzer_tab(as) ==
    IF Len(as) = 0 THEN [present |-> FALSE, columns |-> <<>>]
    ELSE LET col_childs == place_all(<<<<>>, <<>>>>, as)
         IN  [present |-> TRUE,
              columns |-> IF Len(col_childs[2]) > 0
                          THEN <<col_childs[1], col_childs[2]>>
                          ELSE <<col_childs[1]>>]

----------------------------------------------------------------------------
(* plot *)

MaxPlots == 2

(* self._cds is None *)
NoCds == [made_by |-> 0, data0 |-> NoneObj]

plot_raises_numfigs_only(numfigs, use) == numfigs > 1

(* if numfigs > 1: raise ...; if use is not None: raise ... *)
plot_raises(numfigs, use) == numfigs > 1 \/ use # "None"

plot_returns_no_datas_only(strategy) == Len(strategy.datas) = 0

(* if not strategy.datas: return; if not len(strategy): return *)
plot_returns(strategy) == Len(strategy.datas) = 0 \/ Len(strategy.dtime) = 0

(* if self._cds is None: self._cds = ColumnDataSource(datetime line of datas[0]) *)
new_cds(old, strategy, callno) ==
    IF old = NoCds THEN [made_by |-> callno, data0 |-> strategy.datas[1]] ELSE old

(* f.figure.xaxis.visible = False if i <= len(strat_figures) else True, i from 0 *)
xaxis_visible(pos, i, n, before) ==
    IF pos = "bottom" THEN (IF i <= n THEN FALSE ELSE TRUE) ELSE before

(* the Figures of one call: one per (master, slaves) of the graph, in the
   dict's order; the x_range of each is the first one's; ids continue the
   session's *)
strat_figures(info, sch, graph, range, base, callno) ==
    [k \in 1 .. Len(graph) |->
        [id |-> base + k,
         made_by |-> callno,
         master |-> graph[k].master,
         master_type |-> TypeOf(graph[k].master),
         plotabove |-> info[graph[k].master].plotabove,
         slaves |-> graph[k].slaves,
         start |-> range.start,
         end |-> range.end,
         x_range |-> base + 1,
         xaxis_visible |-> xaxis_visible(sch.xaxis_pos, k - 1, Len(graph), TRUE)]]

figures_replaced(old, new) == new

(* self._figures += strat_figures *)
figures_extended(old, new) == old \o new

----------------------------------------------------------------------------
(* show *)

IsObserver(x) == x.master_type = "Observer"

Ids(figs) == [k \in 1 .. Len(figs) |-> figs[k].id]

single_order_aboves_first(figs) ==
    LET observers == SelectSeq(figs, IsObserver)
        rest1 == SelectSeq(figs, LAMBDA x : x \notin SeqToSet(observers))
        aboves == SelectSeq(rest1, LAMBDA x : x.plotabove)
        rest2 == SelectSeq(rest1, LAMBDA x : x \notin SeqToSet(aboves))
    IN  Ids(aboves \o observers \o rest2)

(* _show_single: observers, then the plotabove ones, then the rest *)
single_order(figs) ==
    LET observers == SelectSeq(figs, IsObserver)
        rest1 == SelectSeq(figs, LAMBDA x : x \notin SeqToSet(observers))
        aboves == SelectSeq(rest1, LAMBDA x : x.plotabove)
        rest2 == SelectSeq(rest1, LAMBDA x : x \notin SeqToSet(aboves))
    IN  Ids(observers \o aboves \o rest2)

_show_single(figs, as) ==
    [mode |-> "Single",
     panels |-> <<[title |-> "Charts", figs |-> single_order(figs)]>>,
     analyzer_tab |-> _get_analyzer_tab(as)]

(* add_panel: a category with no figure gets no tab *)
add_panel(panels, obj, title) ==
    IF Len(obj) = 0 THEN panels ELSE Append(panels, [title |-> title, figs |-> Ids(obj)])

_show_tabs(figs, as) ==
    LET observers == SelectSeq(figs, IsObserver)
        datas == SelectSeq(figs, LAMBDA x : x.master_type = "DataBase")
        inds == SelectSeq(figs, LAMBDA x : x.master_type = "Indicator")
        p1 == add_panel(<<>>, datas, "Datas")
        p2 == add_panel(p1, inds, "Indicators")
    IN  [mode |-> "Tabs",
         panels |-> add_panel(p2, observers, "Observers"),
         analyzer_tab |-> _get_analyzer_tab(as)]

NoDoc == [mode |-> "None", panels |-> <<>>, analyzer_tab |-> [present |-> FALSE, columns |-> <<>>]]

----------------------------------------------------------------------------
(* States before any call *)

Info(plot, plotskip, subplot, plotmaster, plotabove) ==
    [plot |-> plot, plotskip |-> plotskip, subplot |-> subplot,
     plotmaster |-> plotmaster, plotabove |-> plotabove]

NonDatas == Observers \cup Indicators

NoStrategy == [datas |-> <<>>, inds |-> <<>>, obs |-> <<>>, dtime |-> <<>>, analyzers |-> <<>>]

NoCall == [op |-> "none", numfigs |-> 1, use |-> "None", strategy |-> NoStrategy,
           outcome |-> "none", doc |-> NoDoc]

IdleResolver == [pc |-> "idle", arg |-> NoneObj, obj |-> NoneObj, ret |-> NoneObj, steps |-> 0]

NoRangeCall == [called |-> FALSE, start |-> NoneArg, end |-> NoneArg,
                ret |-> [start |-> 0, end |-> 0]]

DefaultScheme == [volume |-> TRUE, voloverlay |-> FALSE, xaxis_pos |-> "bottom",
                  plot_mode |-> "Single"]

DefaultInfo == [p \in Plottables |-> Info(TRUE, FALSE, FALSE, NoneObj, FALSE)]

DefaultOwner == [p \in NonDatas |-> 1]

(* a fresh Bokeh object: __init__ *)
NewSession ==
    /\ figures = <<>>
    /\ data_graph = NoGraph
    /\ volume_graphs = NoVolume
    /\ cds = NoCds
    /\ analyzers = <<>>
    /\ call = NoCall

session == <<data_graph, volume_graphs, figures, cds, analyzers>>
config == <<plotinfo, owner, scheme>>

----------------------------------------------------------------------------
(* The graph builder on its own: every plotinfo of the plottables, every    *)
(* volume setting, every input order                                        *)

(* a data feed's master is another data feed; an observer's or indicator's
   is any other plottable; no chain has a cycle *)
PlotMasters ==
    {pm \in [Plottables -> {NoneObj} \cup Plottables] :
        /\ \A p \in Plottables : pm[p] # p
        /\ \A d \in Datas : pm[d] \in {NoneObj} \cup Datas
        /\ Acyclic(pm)}

GraphInit ==
    /\ \E plot \in [Plottables -> BOOLEAN], skip \in [NonDatas -> BOOLEAN],
          sub \in [NonDatas -> BOOLEAN], pm \in PlotMasters :
            plotinfo = [p \in Plottables |->
                Info(plot[p],
                     IF p \in Datas THEN FALSE ELSE skip[p],
                     IF p \in Datas THEN FALSE ELSE sub[p],
                     pm[p], FALSE)]
    /\ owner \in [NonDatas -> Datas]
    /\ \A o \in Observers : owner[o] = 1
    /\ scheme \in [volume : BOOLEAN, voloverlay : BOOLEAN, xaxis_pos : {"bottom"},
                   plot_mode : {"Single"}]
    /\ NewSession
    /\ resolver = IdleResolver
    /\ st_dtime = <<>>
    /\ range_call = NoRangeCall

(* the input lists: the data feeds and the observers in any order, the
   indicators in any order with or without an object that has no plotinfo *)
IndLists == Perms(Indicators) \cup Perms(Indicators \cup {LineSingle})

(* the plot masters of observers, which "or" tests for truth *)
ObsMasters == {plotinfo[o].plotmaster : o \in Observers} \ {NoneObj}

BuildGraph(datas, inds, obs, falsy) ==
    LET built == _build_graph(plotinfo, owner, scheme, falsy, datas, inds, obs)
    IN  /\ data_graph' = built.graph
        /\ volume_graphs' = built.volume
        /\ call' = [NoCall EXCEPT !.op = "_build_graph", !.outcome = "returned",
                                  !.strategy.datas = datas, !.strategy.obs = obs]
        /\ UNCHANGED <<config, figures, cds, analyzers, resolver, st_dtime, range_call>>

GraphNext ==
    \E datas \in Perms(Datas), inds \in IndLists, obs \in Perms(Observers),
       falsy \in SUBSET ObsMasters :
        BuildGraph(datas, inds, obs, falsy)

SpecGraph == GraphInit /\ [][GraphNext]_vars

(* the same builder where only the data feeds' plotinfo and the volume
   settings vary: the observer and the indicator are enabled, in a panel of
   their own or on the first data feed *)
VolumeInit ==
    /\ \E plot \in [Datas -> BOOLEAN], sub \in [NonDatas -> BOOLEAN], pm \in PlotMasters :
            /\ \A p \in NonDatas : pm[p] = NoneObj
            /\ plotinfo = [p \in Plottables |->
                    IF p \in Datas THEN Info(plot[p], FALSE, FALSE, pm[p], FALSE)
                    ELSE Info(TRUE, FALSE, sub[p], NoneObj, FALSE)]
    /\ owner = DefaultOwner
    /\ scheme \in [volume : BOOLEAN, voloverlay : BOOLEAN, xaxis_pos : {"bottom"},
                   plot_mode : {"Single"}]
    /\ NewSession
    /\ resolver = IdleResolver
    /\ st_dtime = <<>>
    /\ range_call = NoRangeCall

SpecVolume == VolumeInit /\ [][GraphNext]_vars

----------------------------------------------------------------------------
(* The resolver on its own, one loop iteration a step *)

ResolveInit ==
    /\ \E pm \in {f \in [Plottables -> {NoneObj} \cup Plottables] : Acyclic(f)} :
            plotinfo = [p \in Plottables |-> Info(TRUE, FALSE, FALSE, pm[p], FALSE)]
    /\ owner = DefaultOwner
    /\ scheme = DefaultScheme
    /\ NewSession
    /\ resolver = IdleResolver
    /\ st_dtime = <<>>
    /\ range_call = NoRangeCall

(* if obj is None: return None *)
ResolveCall(obj) ==
    /\ resolver.pc = "idle"
    /\ resolver' = IF obj = NoneObj
                   THEN [resolver EXCEPT !.pc = "done", !.arg = obj, !.ret = NoneObj]
                   ELSE [resolver EXCEPT !.pc = "loop", !.arg = obj, !.obj = obj]
    /\ UNCHANGED <<config, session, call, st_dtime, range_call>>

(* one pass of "while True": break and return obj, or obj = pm *)
ResolveLoop ==
    /\ resolver.pc = "loop"
    /\ resolver' = IF loop_break(plotinfo, resolver.obj)
                   THEN [resolver EXCEPT !.pc = "done", !.ret = resolver.obj]
                   ELSE [resolver EXCEPT !.obj = plotinfo[resolver.obj].plotmaster,
                                         !.steps = @ + 1]
    /\ UNCHANGED <<config, session, call, st_dtime, range_call>>

ResolveNext ==
    \/ \E obj \in {NoneObj} \cup Plottables : ResolveCall(obj)
    \/ ResolveLoop

SpecResolve == ResolveInit /\ [][ResolveNext]_vars

----------------------------------------------------------------------------
(* Properties of the graph builder *)

Built == call.op = "_build_graph" /\ call.outcome = "returned"

(* how often p is a slave in the lists of g *)
SlaveCount(g, p) ==
    Cardinality({<<k, n>> \in (1 .. Len(g)) \X (1 .. Cardinality(Plottables) + 1) :
                    n \in 1 .. Len(g[k].slaves) /\ g[k].slaves[n] = p})

KeyCount(g, p) == Cardinality({k \in 1 .. Len(g) : g[k].master = p})

Occurrences(g, p) == KeyCount(g, p) + SlaveCount(g, p)

Enabled(p) == plotinfo[p].plot /\ ~plotinfo[p].plotskip

InVolume(p) == \E k \in 1 .. Len(volume_graphs) : volume_graphs[k] = p

(* C1: after _build_graph, on any input order, every enabled and not skipped
   Plottable is in the Plot Graph exactly once, as a key or in one slave
   list, and every disabled or skipped one is in it nowhere. *)
C1_ExactlyOnce ==
    Built => \A p \in Plottables :
                Occurrences(data_graph, p) = (IF Enabled(p) THEN 1 ELSE 0)

(* C2, as stated: after _build_graph, whatever the scheme's volume settings,
   no Plottable is both in the Plot Graph and in the volume-panel list. *)
C2_Disjoint ==
    Built => \A p \in Plottables : ~(Occurrences(data_graph, p) > 0 /\ InVolume(p))

(* C2, amended: the volume-panel list holds the enabled data feeds in input
   order when volume is on and voloverlay is off, and is empty otherwise; so
   no Plottable is in both structures unless volume is on and voloverlay off. *)
C2_VolumeList ==
    Built =>
        /\ volume_graphs =
              IF scheme.volume /\ ~scheme.voloverlay
              THEN SelectSeq(call.strategy.datas, LAMBDA d : plotinfo[d].plot)
              ELSE <<>>
        /\ (~scheme.volume \/ scheme.voloverlay) =>
              \A p \in Plottables : ~(Occurrences(data_graph, p) > 0 /\ InVolume(p))

(* a data feed with its own price panel and its own volume panel *)
C2_Witness ==
    /\ Built
    /\ scheme.volume /\ ~scheme.voloverlay
    /\ Len(volume_graphs) = NumData
    /\ \E d \in Datas : KeyCount(data_graph, d) = 1 /\ InVolume(d)

----------------------------------------------------------------------------
(* Properties of the resolver *)

(* the objects on the chain from obj, obj included *)
ChainOf(obj) ==
    {obj} \cup {n \in Plottables :
                  OnChain([p \in Plottables |-> plotinfo[p].plotmaster], obj, n,
                          Cardinality(Plottables))}

(* C3: on an acyclic chain _resolve_plotmaster ends, within as many
   iterations as there are objects, and returns the one object of the chain
   that has no plot master: an object without master is returned itself,
   every object of the chain resolves to the same root, and None gives None. *)
C3_ResolvesRoot ==
    /\ resolver.steps < Cardinality(Plottables)
    /\ resolver.pc = "done" =>
         IF resolver.arg = NoneObj THEN resolver.ret = NoneObj
         ELSE /\ resolver.ret \in ChainOf(resolver.arg)
              /\ plotinfo[resolver.ret].plotmaster = NoneObj
              /\ \A n \in ChainOf(resolver.arg) :
                    plotinfo[n].plotmaster = NoneObj => n = resolver.ret
              /\ plotinfo[resolver.arg].plotmaster = NoneObj => resolver.ret = resolver.arg
              /\ \A n \in ChainOf(resolver.arg) :
                    _resolve_plotmaster(plotinfo, n) = resolver.ret

(* a chain of three objects resolved from its far end *)
C3_Witness ==
    /\ resolver.pc = "done"
    /\ resolver.steps = 2
    /\ Cardinality(ChainOf(resolver.arg)) = 3
    /\ resolver.ret # resolver.arg

----------------------------------------------------------------------------
(* _get_start_end on its own: every sorted series and every kind of bound
   as the arguments of one call *)

SortedSeries ==
    {a \in UNION {[1 .. n -> 0 .. MaxTick] : n \in 0 .. MaxLen} :
        \A i \in 1 .. Len(a) - 1 : a[i] <= a[i + 1]}

BoundArgs ==
    {NoneArg} \cup {IntArg(n) : n \in -MaxLen .. MaxLen} \cup {DateArg(d) : d \in 1 .. MaxDay}

RangeInit ==
    /\ st_dtime \in SortedSeries
    /\ plotinfo = DefaultInfo
    /\ owner = DefaultOwner
    /\ scheme = DefaultScheme
    /\ NewSession
    /\ resolver = IdleResolver
    /\ \E start \in BoundArgs, end \in BoundArgs :
            range_call = [NoRangeCall EXCEPT !.start = start, !.end = end]

GetStartEnd ==
    /\ ~range_call.called
    /\ range_call' = [range_call EXCEPT
                        !.called = TRUE,
                        !.ret = _get_start_end(st_dtime, range_call.start, range_call.end)]
    /\ UNCHANGED <<config, session, call, resolver, st_dtime>>

RangeNext == GetStartEnd

SpecRange == RangeInit /\ [][RangeNext]_vars

(* the 0-based indices s .. e-1 of the resolved range *)
RangeIndices == {i \in 0 .. Len(st_dtime) - 1 : range_call.ret.start <= i /\ i < range_call.ret.end}

DateRange == range_call.called /\ range_call.start.tag = "date" /\ range_call.end.tag = "date"

(* C9, as stated: with start and end calendar dates, the indices s .. e-1
   are exactly the points of the series within [start, end). *)
C9_HalfOpen ==
    DateRange =>
        RangeIndices = {i \in 0 .. Len(st_dtime) - 1 :
                            /\ date2num(range_call.start.v) <= st_dtime[i + 1]
                            /\ st_dtime[i + 1] < date2num(range_call.end.v)}

(* C9, amended: with start and end calendar dates, the indices s .. e-1 are
   exactly the points of the series within [start, end], a point at the end
   date's own number included. *)
C9_Closed ==
    DateRange =>
        RangeIndices = {i \in 0 .. Len(st_dtime) - 1 :
                            /\ date2num(range_call.start.v) <= st_dtime[i + 1]
                            /\ st_dtime[i + 1] <= date2num(range_call.end.v)}

(* a series with points before start, at start, at end and after end *)
C9_Witness ==
    /\ DateRange
    /\ range_call.start.v < range_call.end.v
    /\ Len(st_dtime) = MaxLen
    /\ st_dtime[1] < date2num(range_call.start.v)
    /\ \E i \in 1 .. Len(st_dtime) : st_dtime[i] = date2num(range_call.end.v)
    /\ st_dtime[Len(st_dtime)] > date2num(range_call.end.v)
    /\ RangeIndices # {}

----------------------------------------------------------------------------
(* _get_analyzer_tab on its own: every list of analyzer collections *)

AnalyzerItems == [header : {NoneHeight, 1}, elements : {<<h>> : h \in 1 .. MaxHeight}]

Collections == UNION {[1 .. n -> AnalyzerItems] : n \in 0 .. MaxAnalyzers}

(* one collection, or the same analyzers split over two strategies' collections *)
AnalyzerLists ==
    {<<>>} \cup {<<c>> : c \in Collections}
           \cup {<<SubSeq(c, 1, cut), SubSeq(c, cut + 1, Len(c))>> :
                    <<c, cut>> \in {x \in Collections \X (0 .. MaxAnalyzers) : x[2] <= Len(x[1])}}

AnalyzerInit ==
    /\ analyzers \in AnalyzerLists
    /\ figures = <<>>
    /\ data_graph = NoGraph
    /\ volume_graphs = NoVolume
    /\ cds = NoCds
    /\ call = NoCall
    /\ plotinfo = DefaultInfo
    /\ owner = DefaultOwner
    /\ scheme = DefaultScheme
    /\ resolver = IdleResolver
    /\ st_dtime = <<>>
    /\ range_call = NoRangeCall

GetAnalyzerTab ==
    /\ call' = [NoCall EXCEPT !.op = "_get_analyzer_tab", !.outcome = "returned",
                              !.doc.analyzer_tab = _get_analyzer_tab(analyzers)]
    /\ UNCHANGED <<config, session, resolver, st_dtime, range_call>>

AnalyzerNext == GetAnalyzerTab

SpecAnalyzer == AnalyzerInit /\ [][AnalyzerNext]_vars

RECURSIVE Flatten(_)
Flatten(as) == IF as = <<>> THEN <<>> ELSE Head(as) \o Flatten(Tail(as))

TableHeights(as) ==
    [k \in 1 .. Len(Flatten(as)) |-> _get_column_row_count(Blocks(Flatten(as)[k]))]

TabBuilt == call.op = "_get_analyzer_tab" /\ call.outcome = "returned"

(* C10, as stated: analyzer tables of heights 4, 2, 3 end as column A = the
   first and the third (height 7), column B = the second. *)
C10_FirstAndThird ==
    (TabBuilt /\ TableHeights(analyzers) = <<4, 2, 3>>) =>
        LET a == Flatten(analyzers)
        IN  call.doc.analyzer_tab.columns = <<Blocks(a[1]) \o Blocks(a[3]), Blocks(a[2])>>

(* C10, amended: analyzer tables of heights 4, 2, 3 end as column A = the
   first (height 4), column B = the second and the third (height 5): each
   goes to the column that is lower at that moment, column A on a tie. *)
C10_SecondAndThird ==
    (TabBuilt /\ TableHeights(analyzers) = <<4, 2, 3>>) =>
        LET a == Flatten(analyzers)
        IN  /\ call.doc.analyzer_tab.present
            /\ call.doc.analyzer_tab.columns = <<Blocks(a[1]), Blocks(a[2]) \o Blocks(a[3])>>
            /\ _get_column_row_count(call.doc.analyzer_tab.columns[1]) = 4
            /\ _get_column_row_count(call.doc.analyzer_tab.columns[2]) = 5

C10_Witness ==
    /\ TabBuilt
    /\ TableHeights(analyzers) = <<4, 2, 3>>
    /\ Len(call.doc.analyzer_tab.columns) = 2

----------------------------------------------------------------------------
(* The session: plot and show calls on one Bokeh object *)

(* the observers and indicators plot in a panel of their own or on their
   data feed, above the price panel or not; the scheme is any *)
Init ==
    /\ \E sub \in [NonDatas -> BOOLEAN], above \in [NonDatas -> BOOLEAN] :
            plotinfo = [p \in Plottables |->
                IF p \in Datas THEN Info(TRUE, FALSE, FALSE, NoneObj, FALSE)
                ELSE Info(TRUE, FALSE, sub[p], NoneObj, above[p])]
    /\ owner = DefaultOwner
    /\ scheme \in [volume : BOOLEAN, voloverlay : {FALSE}, xaxis_pos : {"bottom", "top"},
                   plot_mode : {"Single", "Tabs", "Other"}]
    /\ NewSession
    /\ resolver = IdleResolver
    /\ st_dtime = <<>>
    /\ range_call = NoRangeCall

RECURSIVE Sorted(_)
Sorted(S) == IF S = {} THEN <<>>
             ELSE LET m == CHOOSE x \in S : \A y \in S : x <= y
                  IN  <<m>> \o Sorted(S \ {m})

(* a strategy: no data feed, the first one, or all of them; no bar yet or
   two; its indicators (one of them without plotinfo), observers, analyzers *)
Strategies ==
    [datas : {<<>>, <<1>>, Sorted(Datas)},
     inds : {Sorted(Indicators) \o <<LineSingle>>},
     obs : {Sorted(Observers)},
     dtime : {<<>>, <<1, 2>>},
     analyzers : {<<[header |-> NoneHeight, elements |-> <<2>>]>>}]

PlotCall(strategy, numfigs, use, outcome) ==
    [NoCall EXCEPT !.op = "plot", !.numfigs = numfigs, !.use = use,
                   !.strategy = strategy, !.outcome = outcome]

(* plot(strategy, numfigs=numfigs, start=None, end=None, use=use) *)
Plot(strategy, numfigs, use, falsy) ==
    \/ /\ plot_raises(numfigs, use)
       /\ call' = PlotCall(strategy, numfigs, use, "raised")
       /\ UNCHANGED <<config, session, resolver, st_dtime, range_call>>
    \/ /\ ~plot_raises(numfigs, use)
       /\ plot_returns(strategy)
       /\ call' = PlotCall(strategy, numfigs, use, "returned")
       /\ UNCHANGED <<config, session, resolver, st_dtime, range_call>>
    \/ /\ ~plot_raises(numfigs, use)
       /\ ~plot_returns(strategy)
       /\ Len(analyzers) < MaxPlots
       \* the volume panels of lines 159-161 are built and dropped: no list keeps them
       /\ LET callno == Len(analyzers) + 1
              built == _build_graph(plotinfo, owner, scheme, falsy,
                                    strategy.datas, strategy.inds, strategy.obs)
              range == _get_start_end(strategy.dtime, NoneArg, NoneArg)
              figs == strat_figures(plotinfo, scheme, built.graph, range,
                                    Len(figures), callno)
          IN  /\ analyzers' = Append(analyzers, strategy.analyzers)
              /\ cds' = new_cds(cds, strategy, callno)
              /\ data_graph' = built.graph
              /\ volume_graphs' = built.volume
              /\ figures' = figures_extended(figures, figs)
       /\ call' = PlotCall(strategy, numfigs, use, "rendered")
       /\ UNCHANGED <<config, resolver, st_dtime, range_call>>

(* show() *)
Show ==
    /\ call' = IF scheme.plot_mode = "Single"
               THEN [NoCall EXCEPT !.op = "show", !.outcome = "shown",
                                   !.doc = _show_single(figures, analyzers)]
               ELSE IF scheme.plot_mode = "Tabs"
               THEN [NoCall EXCEPT !.op = "show", !.outcome = "shown",
                                   !.doc = _show_tabs(figures, analyzers)]
               ELSE [NoCall EXCEPT !.op = "show", !.outcome = "raised"]
    /\ UNCHANGED <<config, session, resolver, st_dtime, range_call>>

Next ==
    \/ \E strategy \in Strategies, numfigs \in 1 .. 2, use \in {"None", "agg"},
          falsy \in SUBSET ObsMasters :
            Plot(strategy, numfigs, use, falsy)
    \/ Show

Spec == Init /\ [][Next]_vars

----------------------------------------------------------------------------
(* Properties of the session *)

EmptyStrategy(strategy) == Len(strategy.datas) = 0 \/ Len(strategy.dtime) = 0

(* C4: a plot call with numfigs = 1 and use unset on a strategy with no data
   feed or no bar returns without error and leaves the figure list, the shared
   time source, the analyzer list, the Plot Graph and the volume-panel list
   as they were, whatever the session's state. *)
C4_EmptyIsNoOp ==
    [][(/\ call'.op = "plot"
        /\ call'.numfigs = 1 /\ call'.use = "None"
        /\ EmptyStrategy(call'.strategy))
       => (call'.outcome = "returned" /\ UNCHANGED session)]_vars

(* a session with panels, and a plot call on a strategy with data feeds but no bar *)
C4_Witness ==
    /\ call.op = "plot" /\ call.outcome = "returned"
    /\ call.numfigs = 1 /\ call.use = "None"
    /\ Len(call.strategy.datas) > 0 /\ Len(call.strategy.dtime) = 0
    /\ figures # <<>>
    /\ cds # NoCds

(* C5: a plot call with numfigs > 1 or with use set raises, for every
   strategy, and modifies nothing of the session. *)
C5_RaisesFirst ==
    [][(/\ call'.op = "plot"
        /\ (call'.numfigs > 1 \/ call'.use # "None"))
       => (call'.outcome = "raised" /\ UNCHANGED session)]_vars

(* use set, numfigs 1, on a strategy that would render, in a session with panels *)
C5_Witness ==
    /\ call.op = "plot" /\ call.outcome = "raised"
    /\ call.numfigs = 1 /\ call.use # "None"
    /\ ~EmptyStrategy(call.strategy)
    /\ figures # <<>>

(* C6: over any calls the shared time source is made once, by the first plot
   call that renders, and never replaced; the figure list only grows: a
   rendering call appends its panels after the earlier ones, which keep their
   order, and show removes none. *)
C6_Accumulates ==
    [][/\ cds # NoCds => cds' = cds
       /\ (cds = NoCds /\ cds' # NoCds) =>
              (analyzers = <<>> /\ call'.outcome = "rendered" /\ cds'.made_by = 1)
       /\ call'.outcome = "rendered" =>
              /\ cds' # NoCds
              /\ Len(figures') > Len(figures)
              /\ \A k \in Len(figures) + 1 .. Len(figures') :
                    figures'[k].made_by = Len(analyzers')
       /\ Len(figures') >= Len(figures)
       /\ SubSeq(figures', 1, Len(figures)) = figures]_vars

(* two rendering calls, then show: the panels of both, the first call's source *)
C6_Witness ==
    /\ call.op = "show"
    /\ Len(analyzers) = 2
    /\ cds.made_by = 1
    /\ \E i, j \in 1 .. Len(figures) :
          i < j /\ figures[i].made_by = 1 /\ figures[j].made_by = 2

Rank(f) == IF IsObserver(f) THEN 1 ELSE IF f.plotabove THEN 2 ELSE 3

Pos(id) == CHOOSE k \in 1 .. Len(figures) : figures[k].id = id

ShownSingle == call.op = "show" /\ call.outcome = "shown" /\ call.doc.mode = "Single"

(* C7: in single mode the column shown holds every panel of the figure list
   exactly once: the observers' panels, then the other plot-above panels,
   then the rest, each group in the figure list's order. *)
C7_SingleOrder ==
    ShownSingle =>
        LET col == call.doc.panels[1].figs
        IN  /\ Len(col) = Len(figures)
            /\ \A k \in 1 .. Len(figures) :
                  Cardinality({i \in 1 .. Len(col) : col[i] = figures[k].id}) = 1
            /\ \A i, j \in 1 .. Len(col) :
                  i < j =>
                    /\ Rank(figures[Pos(col[i])]) <= Rank(figures[Pos(col[j])])
                    /\ Rank(figures[Pos(col[i])]) = Rank(figures[Pos(col[j])])
                          => Pos(col[i]) < Pos(col[j])

(* three panels, one an observer's and one plot-above, made in another order *)
C7_Witness ==
    /\ ShownSingle
    /\ Len(figures) = 3
    /\ Cardinality({k \in 1 .. 3 : IsObserver(figures[k])}) = 1
    /\ Cardinality({k \in 1 .. 3 : ~IsObserver(figures[k]) /\ figures[k].plotabove}) = 1
    /\ ~IsObserver(figures[1]) /\ ~figures[1].plotabove
    /\ call.doc.panels[1].figs[3] = figures[1].id

(* C8: with the x-axis at the bottom, of the panels a plot call makes only
   the last has its x-axis visible. *)
C8_BottomPanelVisible ==
    scheme.xaxis_pos = "bottom" =>
        \A k \in 1 .. Len(figures) :
            figures[k].xaxis_visible =
                (k = Len(figures) \/ figures[k + 1].made_by # figures[k].made_by)

====
